---- MODULE Spec2Model ----
(***************************************************************************)
(* Wellness analysis engine of the Bloom application (src/app.py):         *)
(*   analyze_responses / generate_summary   - the response scorer          *)
(*   calculate_check_in_streak              - the check-in streak          *)
(*   analyze_wellness_trend                 - the trend classifier         *)
(* together with the handlers that feed them (submit_responses,            *)
(* get_user_progress) and the daily_responses table they share.            *)
(*                                                                         *)
(* Numbers.  Python floats are modelled by exact fixed-point integers:     *)
(* a scale value v is the integer v * Milli, a burnout score is the        *)
(* fraction num / den of such integers, and a rounded score (the 'score'   *)
(* field, one decimal) is an integer number of tenths.  Calendar dates     *)
(* are day numbers.  JSON values are records tagged with their kind;       *)
(* strings are sequences of one-character strings so that lower(),         *)
(* 'in' and float() are computed, not assumed.  On the inputs drawn by the *)
(* specifications below no quotient lies on a rounding tie or on a         *)
(* threshold only up to a double's representation error, so the exact      *)
(* values equal the ones Python's doubles give.                            *)
(***************************************************************************)
EXTENDS Integers, Sequences, FiniteSets, TLC

\* ------------------------------------------------------------------ bounds
MaxQuestions == 2      \* longest question list drawn by InitScore
MaxAnswers   == 2      \* longest answer list drawn by InitScore
MaxHistory   == 4      \* longest score history drawn by InitTrend
MaxDay       == 3      \* the clock runs over days 0 .. MaxDay
MaxResponses == 4      \* rows the daily_responses table may hold

\* ------------------------------------------------------- numeric encoding
Milli  == 1000         \* fixed-point unit of a scale value
Tenths == 10           \* fixed-point unit of a rounded score

\* ----------------------------------------------------------------- strings
Uppers == <<"A","B","C","D","E","F","G","H","I","J","K","L","M",
            "N","O","P","Q","R","S","T","U","V","W","X","Y","Z">>
Lowers == <<"a","b","c","d","e","f","g","h","i","j","k","l","m",
            "n","o","p","q","r","s","t","u","v","w","x","y","z">>

\* str.lower() on one character
LowerChar(c) ==
    IF \E k \in 1..Len(Uppers) : Uppers[k] = c
    THEN Lowers[CHOOSE k \in 1..Len(Uppers) : Uppers[k] = c]
    ELSE c

\* response.lower()
Lower(s) == [k \in 1..Len(s) |-> LowerChar(s[k])]

\* keyword in response_lower  (substring test)
Contains(s, kw) ==
    \E off \in 0..(Len(s) - Len(kw)) :
        \A k \in 1..Len(kw) : s[off + k] = kw[k]

\* stress_keywords, in the order of the list literal
stress_keywords ==
    << "overwhelmed", "stressed", "tired", "burned", "exhausted",
       "pressure", "deadline", "too much", "can't cope" >>

\* the characters of each keyword
KeywordChars(kw) ==
    CASE kw = "overwhelmed" -> <<"o","v","e","r","w","h","e","l","m","e","d">>
      [] kw = "stressed"    -> <<"s","t","r","e","s","s","e","d">>
      [] kw = "tired"       -> <<"t","i","r","e","d">>
      [] kw = "burned"      -> <<"b","u","r","n","e","d">>
      [] kw = "exhausted"   -> <<"e","x","h","a","u","s","t","e","d">>
      [] kw = "pressure"    -> <<"p","r","e","s","s","u","r","e">>
      [] kw = "deadline"    -> <<"d","e","a","d","l","i","n","e">>
      [] kw = "too much"    -> <<"t","o","o"," ","m","u","c","h">>
      [] kw = "can't cope"  -> <<"c","a","n","'","t"," ","c","o","p","e">>

\* ------------------------------------------------------------- JSON values
JNull      == [kind |-> "null", milli |-> 0, items |-> <<>>]
JNum(m)    == [kind |-> "num",  milli |-> m, items |-> <<>>]
JStr(s)    == [kind |-> "str",  milli |-> 0, items |-> s]
JList(s)   == [kind |-> "list", milli |-> 0, items |-> s]

\* Python truthiness of a JSON value
Truthy(r) ==
    CASE r.kind = "null" -> FALSE
      [] r.kind = "num"  -> r.milli # 0
      [] r.kind = "str"  -> r.items # <<>>
      [] r.kind = "list" -> r.items # <<>>

Digits == <<"0","1","2","3","4","5","6","7","8","9">>
IsDigit(c) == \E k \in 1..Len(Digits) : Digits[k] = c
DigitVal(c) == (CHOOSE k \in 1..Len(Digits) : Digits[k] = c) - 1

RECURSIVE DigitsVal(_)
\* value of a run of decimal digits
DigitsVal(s) ==
    IF s = <<>> THEN 0
    ELSE 10 * DigitsVal(SubSeq(s, 1, Len(s) - 1)) + DigitVal(s[Len(s)])

\* position of the first "." of s, or Len(s) + 1
DotPos(s) ==
    IF \E k \in 1..Len(s) : s[k] = "."
    THEN CHOOSE k \in 1..Len(s) :
            s[k] = "." /\ \A j \in 1..(k - 1) : s[j] # "."
    ELSE Len(s) + 1

\* float(str) for the decimal literals  [+-] digits [ . digits{0,3} ]:
\* [ok |-> TRUE, milli |-> value * Milli], or ok = FALSE for ValueError.
\* (Exponents, "nan", "inf", blanks and underscores, which float() also
\* accepts, are outside the strings the model draws.)
ParseFloat(s) ==
    LET signed == s # <<>> /\ s[1] \in {"+", "-"}
        body   == IF signed THEN SubSeq(s, 2, Len(s)) ELSE s
        dot    == DotPos(body)
        ip     == SubSeq(body, 1, dot - 1)
        fp     == SubSeq(body, dot + 1, Len(body))
        wellformed ==
            /\ ip # <<>>
            /\ \A k \in 1..Len(ip) : IsDigit(ip[k])
            /\ \A k \in 1..Len(fp) : IsDigit(fp[k])
            /\ Len(fp) <= 3
        pad == CASE Len(fp) = 0 -> 1000 [] Len(fp) = 1 -> 100
                 [] Len(fp) = 2 -> 10   [] OTHER -> 1
        mag == DigitsVal(ip) * Milli + DigitsVal(fp) * pad
    IN  IF wellformed
        THEN [ok |-> TRUE, milli |-> IF signed /\ s[1] = "-" THEN 0 - mag ELSE mag]
        ELSE [ok |-> FALSE, milli |-> 0]

\* float(response): a number converts to itself, a string is parsed,
\* None or a list raises TypeError, a bad string ValueError
ToFloat(r) ==
    CASE r.kind = "num" -> [ok |-> TRUE, milli |-> r.milli]
      [] r.kind = "str" -> ParseFloat(r.items)
      [] OTHER          -> [ok |-> FALSE, milli |-> 0]

\* --------------------------------------------------------- analyze_responses
\* the running values of the scoring loop; exc is TRUE once a statement
\* has raised (the rest of the try block is then skipped)
ScoreStart ==
    [total_score |-> 0, scale_count |-> 0, stress_factors |-> <<>>, exc |-> FALSE]

Raise(acc) == [acc EXCEPT !.exc = TRUE]

\* lines 312-325 with the stress branch inverted like the others
ScaleBranchStressInverted(acc, question, response) ==
    LET f == ToFloat(response)
        scale_value == f.milli
    IN  IF ~f.ok THEN Raise(acc)
        ELSE IF "category" \notin DOMAIN question THEN Raise(acc)
        ELSE [acc EXCEPT !.scale_count = @ + 1,
                         !.total_score = @ + (11 * Milli - scale_value) * 10]

\* lines 312-325 with an unrecognized category scored like stress
ScaleBranchUnknownDirect(acc, question, response) ==
    LET f == ToFloat(response)
        scale_value == f.milli
    IN  IF ~f.ok THEN Raise(acc)
        ELSE IF "category" \notin DOMAIN question THEN Raise(acc)
        ELSE IF question.category \in {"energy", "satisfaction", "balance"}
        THEN [acc EXCEPT !.scale_count = @ + 1,
                         !.total_score = @ + (11 * Milli - scale_value) * 10]
        ELSE [acc EXCEPT !.scale_count = @ + 1,
                         !.total_score = @ + scale_value * 10]

\* lines 312-325: one answered scale question
ScaleBranch(acc, question, response) ==
    LET f == ToFloat(response)
        scale_value == f.milli
    IN  IF ~f.ok THEN Raise(acc)
        ELSE IF "category" \notin DOMAIN question THEN Raise(acc)
        ELSE IF question.category \in {"stress"}
        THEN [acc EXCEPT !.scale_count = @ + 1,
                         !.total_score = @ + scale_value * 10]
        ELSE IF question.category \in {"energy", "satisfaction", "balance"}
        THEN [acc EXCEPT !.scale_count = @ + 1,
                         !.total_score = @ + (11 * Milli - scale_value) * 10]
        ELSE [acc EXCEPT !.scale_count = @ + 1,
                         !.total_score = @ + (11 * Milli - scale_value) * 10]

RECURSIVE KeywordLoopDedup(_, _, _)
\* lines 333-336 with a concern that is added only when not yet present
KeywordLoopDedup(acc, response_lower, k) ==
    IF k > Len(stress_keywords) THEN acc
    ELSE LET keyword == stress_keywords[k]
             seen == \E j \in 1..Len(acc.stress_factors) :
                        acc.stress_factors[j].keyword = keyword
         IN  IF Contains(response_lower, KeywordChars(keyword)) /\ ~seen
             THEN KeywordLoopDedup(
                    [acc EXCEPT
                       !.stress_factors =
                           Append(@, [text |-> "Mentioned feeling", keyword |-> keyword]),
                       !.total_score = @ + 15 * Milli],
                    response_lower, k + 1)
             ELSE KeywordLoopDedup(acc, response_lower, k + 1)

RECURSIVE KeywordLoop(_, _, _)
\* lines 333-336: for keyword in stress_keywords, from the k-th on
KeywordLoop(acc, response_lower, k) ==
    IF k > Len(stress_keywords) THEN acc
    ELSE LET keyword == stress_keywords[k]
         IN  IF Contains(response_lower, KeywordChars(keyword))
             THEN KeywordLoop(
                    [acc EXCEPT
                       !.stress_factors =
                           Append(@, [text |-> "Mentioned feeling", keyword |-> keyword]),
                       !.total_score = @ + 15 * Milli],
                    response_lower, k + 1)
             ELSE KeywordLoop(acc, response_lower, k + 1)

\* lines 327-336 with a type test that skips an answer without .lower()
TextBranchSkipNonString(acc, response) ==
    IF response.kind # "str" THEN acc
    ELSE KeywordLoop(acc, Lower(response.items), 1)

\* lines 327-336: one truthy answer to a text question
TextBranch(acc, response) ==
    IF response.kind # "str" THEN Raise(acc)     \* no .lower(): AttributeError
    ELSE KeywordLoop(acc, Lower(response.items), 1)

\* lines 310-336 without the bounds test of line 310: responses[i] raises
\* IndexError for a question without an answer
ScoreItemNoGuard(acc, question, responses, i) ==
    IF responses.kind # "list" THEN Raise(acc)
    ELSE IF i > Len(responses.items) THEN Raise(acc)
    ELSE LET response == responses.items[i]
         IN  IF "type" \notin DOMAIN question THEN Raise(acc)
             ELSE IF question.type = "scale" /\ response.kind # "null"
             THEN ScaleBranch(acc, question, response)
             ELSE IF question.type = "text" /\ Truthy(response)
             THEN TextBranch(acc, response)
             ELSE acc

\* lines 310-336: the body of the loop for question i (1-based)
ScoreItem(acc, question, responses, i) ==
    IF responses.kind # "list" THEN Raise(acc)   \* len(None): TypeError
    ELSE LET response == IF i <= Len(responses.items)
                         THEN responses.items[i] ELSE JNull
         IN  IF "type" \notin DOMAIN question THEN Raise(acc)   \* KeyError
             ELSE IF question.type = "scale" /\ response.kind # "null"
             THEN ScaleBranch(acc, question, response)
             ELSE IF question.type = "text" /\ Truthy(response)
             THEN TextBranch(acc, response)
             ELSE acc

RECURSIVE ScoreLoop(_, _, _, _)
\* lines 309-336: for i, question in enumerate(questions), from i on
ScoreLoop(acc, questions, responses, i) ==
    IF acc.exc \/ i > Len(questions.items) THEN acc
    ELSE ScoreLoop(ScoreItem(acc, questions.items[i], responses, i),
                   questions, responses, i + 1)

\* lines 339-342 without the cap at 100
BurnoutScoreNoCap(acc) ==
    IF acc.scale_count > 0
    THEN [num |-> acc.total_score, den |-> acc.scale_count]
    ELSE [num |-> 50 * Milli, den |-> 1]

\* lines 339-342 with the text bonus added to the neutral default
BurnoutScoreBonusOnDefault(acc) ==
    IF acc.scale_count > 0
    THEN IF acc.total_score < 100 * Milli * acc.scale_count
         THEN [num |-> acc.total_score, den |-> acc.scale_count]
         ELSE [num |-> 100 * Milli, den |-> 1]
    ELSE [num |-> 50 * Milli + acc.total_score, den |-> 1]

\* lines 339-342 with a default of 0 instead of the neutral 50
BurnoutScoreZeroDefault(acc) ==
    IF acc.scale_count > 0
    THEN IF acc.total_score < 100 * Milli * acc.scale_count
         THEN [num |-> acc.total_score, den |-> acc.scale_count]
         ELSE [num |-> 100 * Milli, den |-> 1]
    ELSE [num |-> 0, den |-> 1]

\* lines 339-342: min(100, total_score / scale_count), else 50,
\* as the fraction num / den of Milli units
BurnoutScore(acc) ==
    IF acc.scale_count > 0
    THEN IF acc.total_score < 100 * Milli * acc.scale_count
         THEN [num |-> acc.total_score, den |-> acc.scale_count]
         ELSE [num |-> 100 * Milli, den |-> 1]
    ELSE [num |-> 50 * Milli, den |-> 1]

\* burnout_score >= t
ScoreAtLeast(b, t) == b.num >= t * Milli * b.den

\* nearest integer to n / d (d > 0), ties to even
RoundHalfEven(n, d) ==
    LET q == n \div d
        r == n % d
    IN  IF 2 * r < d THEN q
        ELSE IF 2 * r > d THEN q + 1
        ELSE IF q % 2 = 0 THEN q ELSE q + 1

\* round(burnout_score, 1), in tenths
Round1(b) == RoundHalfEven(b.num * Tenths, b.den * Milli)

\* lines 404-411 applied to the rounded score
generate_summary_rounded(score, concerns, urgency) ==
    IF Round1(score) >= 70 * Tenths
    THEN "Your responses indicate high stress levels. It's important to take immediate action to prevent burnout. Consider reaching out for support."
    ELSE IF Round1(score) >= 40 * Tenths
    THEN "Your wellbeing shows some areas of concern. Taking proactive steps now can help prevent more serious issues."
    ELSE "You're managing well overall! Keep up the good habits and continue monitoring your wellbeing."

\* lines 404-411
generate_summary(score, concerns, urgency) ==
    IF ScoreAtLeast(score, 70)
    THEN "Your responses indicate high stress levels. It's important to take immediate action to prevent burnout. Consider reaching out for support."
    ELSE IF ScoreAtLeast(score, 40)
    THEN "Your wellbeing shows some areas of concern. Taking proactive steps now can help prevent more serious issues."
    ELSE "You're managing well overall! Keep up the good habits and continue monitoring your wellbeing."

Concern(s) == [text |-> s, keyword |-> ""]
Rec(t, k, s) == [type |-> t, key |-> k, text |-> s]

\* lines 393-402: the result of the except branch
FallbackAnalysis ==
    [score |-> 50 * Tenths,
     urgency |-> "medium",
     concerns |-> << Concern("Unable to complete full analysis") >>,
     recommendations |->
        << Rec("immediate", "action", "Take a moment to reflect on your wellbeing"),
           Rec("follow-up", "action", "Try completing another check-in tomorrow") >>,
     summary |-> "Analysis completed with limited data. Continue daily check-ins for better insights."]

\* lines 344-388: the result built from the loop's values
BuildAnalysis(acc) ==
    LET burnout_score == BurnoutScore(acc)
        urgency == IF ScoreAtLeast(burnout_score, 70) THEN "high"
                   ELSE IF ScoreAtLeast(burnout_score, 40) THEN "medium"
                   ELSE "low"
        base == IF ScoreAtLeast(burnout_score, 70)
                THEN << Concern("High stress levels detected"), Concern("Risk of burnout") >>
                ELSE IF ScoreAtLeast(burnout_score, 40)
                THEN << Concern("Moderate stress levels") >>
                ELSE << >>
        recommendations ==
                IF ScoreAtLeast(burnout_score, 70)
                THEN << Rec("immediate", "action", "Take a break and practice deep breathing"),
                        Rec("urgent", "action", "Consider speaking with a manager about workload"),
                        Rec("support", "action", "Reach out to employee assistance program") >>
                ELSE IF ScoreAtLeast(burnout_score, 40)
                THEN << Rec("immediate", "action", "Take a 10-minute mindfulness break"),
                        Rec("preventive", "action", "Schedule regular breaks throughout the day"),
                        Rec("module", "title", "Stress management techniques") >>
                ELSE << Rec("maintenance", "action", "Keep up the good work!"),
                        Rec("preventive", "action", "Continue daily check-ins"),
                        Rec("growth", "action", "Share wellness tips with colleagues") >>
        concerns == base \o acc.stress_factors
    IN  [score |-> Round1(burnout_score),
         urgency |-> urgency,
         concerns |-> concerns,
         recommendations |-> recommendations,
         summary |-> generate_summary(burnout_score, concerns, urgency)]

\* lines 301-402
analyze_responses(questions, responses) ==
    IF questions.kind # "list" THEN FallbackAnalysis    \* enumerate(None): TypeError
    ELSE LET acc == ScoreLoop(ScoreStart, questions, responses, 1)
         IN  IF acc.exc THEN FallbackAnalysis ELSE BuildAnalysis(acc)

\* --------------------------------------------------------------- the table
\* a DailyResponse row: user_id, created_at (its calendar date) and
\* burnout_score (nullable Float column), in tenths
NullScore == [null |-> TRUE,  tenths |-> 0]
Score(t)  == [null |-> FALSE, tenths |-> t]

DailyResponse(u, d, b) == [user_id |-> u, created_at |-> d, burnout_score |-> b]

\* r.burnout_score or 0
ScoreOr0(r) == IF r.burnout_score.null THEN 0 ELSE r.burnout_score.tenths

\* DailyResponse.query.filter_by(user_id=user_id), in insertion order
FilterByUser(rows, u) == SelectSeq(rows, LAMBDA r : r.user_id = u)

\* ------------------------------------------------ calculate_check_in_streak
SetMax(S) == CHOOSE m \in S : \A x \in S : x <= m

RECURSIVE SortDesc(_)
\* list(set(...)) followed by sort(reverse=True)
SortDesc(S) ==
    IF S = {} THEN <<>>
    ELSE <<SetMax(S)>> \o SortDesc(S \ {SetMax(S)})

RECURSIVE StreakLoopFromYesterday(_, _, _, _)
\* lines 841-846 with a streak that may also start on the day before
StreakLoopFromYesterday(response_dates, k, streak, current_date) ==
    IF k > Len(response_dates) THEN streak
    ELSE LET response_date == response_dates[k]
         IN  IF response_date = current_date
                \/ response_date = current_date - 1
                \/ response_date = current_date - streak
             THEN StreakLoopFromYesterday(response_dates, k + 1, streak + 1,
                                         response_date)
             ELSE streak

RECURSIVE StreakLoop(_, _, _, _)
\* lines 841-846: for response_date in response_dates, from the k-th on
StreakLoop(response_dates, k, streak, current_date) ==
    IF k > Len(response_dates) THEN streak
    ELSE LET response_date == response_dates[k]
         IN  IF response_date = current_date
                \/ response_date = current_date - streak
             THEN StreakLoop(response_dates, k + 1, streak + 1, response_date)
             ELSE streak

\* lines 823-852 without set(): one date per row, newest first as the
\* query orders them
calculate_check_in_streak_per_row(rows, user_id, now) ==
    LET mine == FilterByUser(rows, user_id)
    IN  IF mine = <<>> THEN 0
        ELSE LET response_dates ==
                    [k \in 1..Len(mine) |-> mine[Len(mine) + 1 - k].created_at]
             IN  StreakLoop(response_dates, 1, 0, now)

\* lines 823-852, on the rows of the table and the clock's date (utcnow().date())
calculate_check_in_streak(rows, user_id, now) ==
    LET mine == FilterByUser(rows, user_id)
    IN  IF mine = <<>> THEN 0
        ELSE LET response_dates ==
                    SortDesc({mine[k].created_at : k \in 1..Len(mine)})
             IN  StreakLoop(response_dates, 1, 0, now)

\* --------------------------------------------------- analyze_wellness_trend
RECURSIVE SumScores(_)
\* sum(r.burnout_score or 0 for r in ...)
SumScores(rows) ==
    IF rows = <<>> THEN 0
    ELSE ScoreOr0(rows[1]) + SumScores(Tail(rows))

\* line 856 with an off-by-one guard
InsufficientDataEmptyOnly(rows) == Len(rows) < 1

\* line 856: len(responses) < 2
InsufficientData(rows) == Len(rows) < 2

\* line 865 with an inclusive comparison
BelowBy5Inclusive(s2, n2, s1, n1) == s2 * n1 <= s1 * n2 - 5 * Tenths * n1 * n2

\* line 865: second_half_avg < first_half_avg - 5, for the averages
\* s2 / n2 and s1 / n1 (in tenths)
BelowBy5(s2, n2, s1, n1) == s2 * n1 < s1 * n2 - 5 * Tenths * n1 * n2

\* line 869: second_half_avg > first_half_avg + 5
AboveBy5(s2, n2, s1, n1) == s2 * n1 > s1 * n2 + 5 * Tenths * n1 * n2

\* line 860 rounding up: the middle element goes to the first half
MidPointCeil(rows) == (Len(rows) + 1) \div 2

\* line 860: mid_point = len(responses) // 2
MidPoint(rows) == Len(rows) \div 2

\* lines 854-872; the averages are the fractions sum / count, and a zero
\* count is Python's ZeroDivisionError
analyze_wellness_trend(rows) ==
    IF InsufficientData(rows) THEN "Not enough data for trend analysis"
    ELSE LET mid_point == MidPoint(rows)
             n1 == mid_point
             n2 == Len(rows) - mid_point
             s1 == SumScores(SubSeq(rows, 1, mid_point))
             s2 == SumScores(SubSeq(rows, mid_point + 1, Len(rows)))
         IN  IF n1 = 0 \/ n2 = 0 THEN "ZeroDivisionError"
             ELSE IF BelowBy5(s2, n2, s1, n1)
             THEN "Significant improvement in wellness"
             \* second_half_avg < first_half_avg
             ELSE IF s2 * n1 < s1 * n2
             THEN "Gradual improvement in wellness"
             ELSE IF AboveBy5(s2, n2, s1, n1)
             THEN "Wellness requires attention"
             ELSE "Stable wellness levels"

\* ------------------------------------------------------------------- state
VARIABLES
    today,            \* datetime.utcnow().date(), a day number
    daily_responses,  \* the daily_responses table, in insertion order
    reply,            \* the reply of the latest request to a handler
    questions,        \* argument of the analyze_responses call under study
    responses,        \* argument of the analyze_responses call under study
    analysis,         \* its return value, NoAnalysis before the call
    history,          \* argument of the analyze_wellness_trend call under study
    trend             \* its return value, NoTrend before the call

vars == << today, daily_responses, reply, questions, responses, analysis,
           history, trend >>

SeqsUpTo(S, n) == UNION { [1..k -> S] : k \in 0..n }

NoAnalysis ==
    [score |-> 0, urgency |-> "none", concerns |-> <<>>,
     recommendations |-> <<>>, summary |-> ""]
NoTrend == ""
NoReply ==
    [kind |-> "none", user_id |-> "", streak |-> 0, trend |-> "",
     score |-> 0, urgency |-> ""]

\* ------------------------------------------------- inputs of analyze_responses
QStress          == [type |-> "scale", category |-> "stress"]
QEnergy          == [type |-> "scale", category |-> "energy"]
QConfidence      == [type |-> "scale", category |-> "confidence"]
QScaleNoCategory == [type |-> "scale"]
QText            == [type |-> "text", category |-> "general"]
QNoType          == [category |-> "stress"]

QuestionSet == { QStress, QEnergy, QConfidence, QScaleNoCategory, QText, QNoType }

TextTired    == <<"T","i","r","e","d">>
TextTooMuch  == <<"t","o","o"," ","m","u","c","h"," ",
                  "p","r","e","s","s","u","r","e">>

TextTiredTwice == <<"t","i","r","e","d",","," ","t","i","r","e","d">>
TextOverwhelmed ==
    <<"I"," ","f","e","e","l"," ","c","o","m","p","l","e","t","e","l","y"," ",
      "o","v","e","r","w","h","e","l","m","e","d"," ","a","n","d"," ",
      "e","x","h","a","u","s","t","e","d">>

\* a stress rating of 9, an energy rating of 2 and a text with two hits
ExampleSubmission ==
    [questions |-> JList(<< QStress, QEnergy, QText >>),
     responses |-> JList(<< JNum(9000), JNum(2000), JStr(TextOverwhelmed) >>)]

AnswerSet ==
    { JNull,
      JNum(0), JNum(1000), JNum(3996), JNum(6996), JNum(10000), JNum(20000),
      JStr(<<"7">>), JStr(<<"-","3">>), JStr(<<>>),
      JStr(TextTired), JStr(TextTiredTwice), JStr(TextTooMuch),
      JList(<<>>), JList(<<"x">>) }

QuestionLists == { JNull } \cup { JList(q) : q \in SeqsUpTo(QuestionSet, MaxQuestions) }
AnswerLists   == { JNull } \cup { JList(r) : r \in SeqsUpTo(AnswerSet, MaxAnswers) }

\* ------------------------------------------ inputs of analyze_wellness_trend
TrendScores == { NullScore, Score(400), Score(450), Score(800), Score(900) }
Histories ==
    { [k \in 1..Len(h) |-> DailyResponse("u1", 0, h[k])] :
        h \in SeqsUpTo(TrendScores, MaxHistory) }

\* ------------------------------------------------------ inputs of the handlers
Users  == { "u1", "u2" }
NoUser == ""                       \* session without a user_id
SampleSubmissions ==
    { [questions |-> JList(<<QStress>>), responses |-> JList(<<JNum(9000)>>)],
      [questions |-> JList(<<QEnergy>>), responses |-> JList(<<JNum(7000)>>)],
      [questions |-> JList(<<>>),        responses |-> JList(<<>>)] }

\* ------------------------------------------------------------------ actions
ScorerIdle  == questions = JNull /\ responses = JNull /\ analysis = NoAnalysis
TrendIdle   == history = <<>> /\ trend = NoTrend
SystemIdle  == today = 0 /\ daily_responses = <<>> /\ reply = NoReply

\* a call of analyze_responses(questions, responses)
AnalyzeResponses ==
    /\ analysis = NoAnalysis
    /\ analysis' = analyze_responses(questions, responses)
    /\ UNCHANGED << today, daily_responses, reply, questions, responses,
                    history, trend >>

\* a call of analyze_wellness_trend(history)
AnalyzeWellnessTrend ==
    /\ trend = NoTrend
    /\ trend' = analyze_wellness_trend(history)
    /\ UNCHANGED << today, daily_responses, reply, questions, responses,
                    analysis, history >>

\* lines 413-459: POST /api/submit
submit_responses(user_id, data) ==
    /\ IF user_id = NoUser
       THEN /\ reply' = [NoReply EXCEPT !.kind = "401"]
            /\ UNCHANGED daily_responses
       ELSE IF ~Truthy(data.questions) \/ ~Truthy(data.responses)
       THEN /\ reply' = [NoReply EXCEPT !.kind = "400"]
            /\ UNCHANGED daily_responses
       ELSE LET a == analyze_responses(data.questions, data.responses)
            IN  /\ Len(daily_responses) < MaxResponses
                /\ daily_responses' =
                      Append(daily_responses,
                             DailyResponse(user_id, today, Score(a.score)))
                /\ reply' = [NoReply EXCEPT !.kind = "submitted",
                                            !.user_id = user_id,
                                            !.score = a.score,
                                            !.urgency = a.urgency]
    /\ UNCHANGED << today, questions, responses, analysis, history, trend >>

\* lines 554-602: GET /api/user-progress for a logged-in user (the demo
\* reply for a session without user_id is random data and is not modelled)
get_user_progress(user_id) ==
    LET thirty_days_ago == today - 30
        mine == SelectSeq(FilterByUser(daily_responses, user_id),
                          LAMBDA r : r.created_at >= thirty_days_ago)
    IN  /\ IF mine = <<>>
           THEN reply' = [NoReply EXCEPT !.kind = "progress",
                                        !.user_id = user_id,
                                        !.trend = "No data available yet",
                                        !.streak = 0]
           ELSE reply' = [NoReply EXCEPT
                            !.kind = "progress",
                            !.user_id = user_id,
                            !.streak = calculate_check_in_streak(
                                          daily_responses, user_id, today),
                            !.trend = analyze_wellness_trend(mine)]
        /\ UNCHANGED << today, daily_responses, questions, responses,
                        analysis, history, trend >>

\* midnight UTC: the date of utcnow() advances; a reply describes the
\* state it was computed from, so it is dropped when that state changes
DayRollover ==
    /\ today < MaxDay
    /\ today' = today + 1
    /\ reply' = NoReply
    /\ UNCHANGED << daily_responses, questions, responses, analysis,
                    history, trend >>

SubmitResponses ==
    \E u \in Users \cup {NoUser}, data \in SampleSubmissions :
        submit_responses(u, data)

GetUserProgress == \E u \in Users : get_user_progress(u)

\* ----------------------------------------------------------- specifications
\* the application: check-ins, the clock and the dashboard
Init == SystemIdle /\ ScorerIdle /\ TrendIdle
Next == SubmitResponses \/ GetUserProgress \/ DayRollover
Spec == Init /\ [][Next]_vars

\* analyze_responses as a function of its arguments
InitScore ==
    /\ SystemIdle /\ TrendIdle
    /\ \/ questions \in QuestionLists /\ responses \in AnswerLists
       \/ /\ questions = ExampleSubmission.questions
          /\ responses = ExampleSubmission.responses
    /\ analysis = NoAnalysis
NextScore == AnalyzeResponses
SpecScore == InitScore /\ [][NextScore]_vars

\* analyze_wellness_trend as a function of its argument
InitTrend ==
    /\ SystemIdle /\ ScorerIdle
    /\ history \in Histories
    /\ trend = NoTrend
NextTrend == AnalyzeWellnessTrend
SpecTrend == InitTrend /\ [][NextTrend]_vars

\* =================================================================== claims
\* ---------------------------------------------------- vocabulary of the claims
\* the distinct calendar dates on which user u checked in
CheckInDates(u) ==
    { daily_responses[k].created_at :
        k \in { j \in 1..Len(daily_responses) : daily_responses[j].user_id = u } }

\* the call under study has returned
Called == analysis # NoAnalysis

\* the answer paired with question i (None when there is none)
ResponseAt(i) ==
    IF responses.kind = "list" /\ i <= Len(responses.items)
    THEN responses.items[i] ELSE JNull

\* question i is a scale question with an answer
ScaleAnswered(i) ==
    /\ "type" \in DOMAIN questions.items[i]
    /\ questions.items[i].type = "scale"
    /\ ResponseAt(i).kind # "null"

\* some concern of the result comes from a lexicon hit
TextConcerns ==
    { k \in 1..Len(analysis.concerns) : analysis.concerns[k].keyword # "" }

RecKinds == [k \in 1..Len(analysis.recommendations) |->
                analysis.recommendations[k].type]

\* ------------------------------------------------------------------------ C1
\* C1: when the distinct check-in dates of a user are exactly the k
\* consecutive days today, today-1, ..., today-(k-1), the streak reported
\* for that user is k.  (The statement of the claim; the code breaks it
\* from k = 3 on.)
C1_ConsecutiveDaysStreak ==
    \A k \in 1..(MaxDay + 1) :
        ( /\ reply.kind = "progress"
          /\ CheckInDates(reply.user_id) = { today - j : j \in 0..(k - 1) } )
        => reply.streak = k

\* ------------------------------------------------------------------------ C2
SecondMinusFirst ==
    LET mid == Len(history) \div 2
        s1 == SumScores(SubSeq(history, 1, mid))
        s2 == SumScores(SubSeq(history, mid + 1, Len(history)))
    IN  s2 * mid - s1 * (Len(history) - mid)

\* delta = second_half_mean - first_half_mean equals d
DeltaIs(d) ==
    /\ Len(history) >= 2
    /\ SecondMinusFirst
         = d * Tenths * (Len(history) \div 2) * (Len(history) - Len(history) \div 2)

\* C2 as stated: a delta of exactly -5 is a significant improvement and a
\* delta of exactly 5 needs attention.
C2_BoundaryInclusive ==
    trend # NoTrend =>
        /\ DeltaIs(0 - 5) => trend = "Significant improvement in wellness"
        /\ DeltaIs(5) => trend = "Wellness requires attention"

\* C2 amended: the boundaries belong to the middle labels; a delta of
\* exactly -5 is a gradual improvement and a delta of exactly 5 is stable.
C2_BoundaryExclusive ==
    trend # NoTrend =>
        /\ DeltaIs(0 - 5) => trend = "Gradual improvement in wellness"
        /\ DeltaIs(5) => trend = "Stable wellness levels"

C2_Witness ==
    /\ DeltaIs(0 - 5)
    /\ trend = "Gradual improvement in wellness"

\* ------------------------------------------------------------------------ C3
\* the statement of the loop body raises for question q with answer r
ItemAnomaly(q, r) ==
    \/ "type" \notin DOMAIN q
    \/ /\ q.type = "scale"
       /\ r.kind # "null"
       /\ (~ToFloat(r).ok \/ "category" \notin DOMAIN q)
    \/ /\ q.type = "text"
       /\ Truthy(r)
       /\ r.kind # "str"

Anomalous ==
    \/ questions.kind # "list"
    \/ responses.kind # "list" /\ questions.items # <<>>
    \/ \E i \in 1..Len(questions.items) :
            ItemAnomaly(questions.items[i], ResponseAt(i))

\* C3: whenever the input triggers an internal anomaly, analyze_responses
\* returns exactly the fallback result (50.0, medium, one generic concern,
\* two generic recommendations), whatever the other answers were.
C3_AnomalyGivesFallback ==
    (Called /\ Anomalous) => analysis = FallbackAnalysis

C3_Witness ==
    /\ Called
    /\ questions.kind = "list" /\ Len(questions.items) = 2
    /\ questions.items[1] = QStress /\ ResponseAt(1) = JNum(10 * Milli)
    /\ ItemAnomaly(questions.items[2], ResponseAt(2))
    /\ analysis = FallbackAnalysis

\* ------------------------------------------------------------------------ C4
\* every answered scale question has a value in [1, 10]
ValidSubmission ==
    /\ questions.kind = "list"
    /\ responses.kind = "list"
    /\ \A i \in 1..Len(questions.items) :
          ScaleAnswered(i) =>
             /\ ToFloat(ResponseAt(i)).ok
             /\ ToFloat(ResponseAt(i)).milli >= 1 * Milli
             /\ ToFloat(ResponseAt(i)).milli <= 10 * Milli

\* C4: for every valid submission the returned score lies in [0, 100].
C4_ValidScoreInRange ==
    (Called /\ ValidSubmission) =>
        (analysis.score >= 0 /\ analysis.score <= 100 * Tenths)

\* a valid submission whose text bonus pushes the mean over the cap
C4_Witness ==
    /\ Called /\ ValidSubmission
    /\ \E i \in 1..Len(questions.items) : ScaleAnswered(i)
    /\ TextConcerns # {}
    /\ analysis.score = 100 * Tenths

\* ------------------------------------------------------------------------ C5
\* C5: a scale answer outside [1, 10] is clamped or rejected, so the score
\* of every submission lies in [0, 100].  (The statement of the claim; the
\* code uses the value as it is.)
C5_OutOfRangeNotTrusted ==
    Called => (analysis.score >= 0 /\ analysis.score <= 100 * Tenths)

\* ------------------------------------------------------------------------ C6
\* C6: the urgency of a result is determined by its rounded score field:
\* high iff score >= 70, medium iff 40 <= score < 70, low iff score < 40.
\* (The statement of the claim; the code tests the unrounded value.)
C6_UrgencyFromRoundedScore ==
    Called =>
        /\ analysis.urgency = "high" <=> analysis.score >= 70 * Tenths
        /\ analysis.urgency = "medium" <=>
              (analysis.score >= 40 * Tenths /\ analysis.score < 70 * Tenths)
        /\ analysis.urgency = "low" <=> analysis.score < 40 * Tenths

\* ------------------------------------------------------------------------ C7
NoScaleAnswered ==
    \A i \in 1..Len(questions.items) : ~ScaleAnswered(i)

\* C7: a submission without an answered scale question yields score 50.0
\* and urgency medium, whatever its text answers contain.
C7_NoScaleIsNeutral ==
    (Called /\ NoScaleAnswered) =>
        (analysis.score = 50 * Tenths /\ analysis.urgency = "medium")

\* two lexicon hits and no scale answer
C7_Witness ==
    /\ Called /\ NoScaleAnswered
    /\ Cardinality(TextConcerns) >= 2
    /\ analysis.score = 50 * Tenths
    /\ analysis.urgency = "medium"

\* ------------------------------------------------------------------------ C8
\* well-formed questions none of which has an answer: no answered scale
\* question and no (non-empty) text answer
EmptySubmission ==
    /\ questions.kind = "list"
    /\ responses.kind = "list"
    /\ \A i \in 1..Len(questions.items) :
          /\ "type" \in DOMAIN questions.items[i]
          /\ questions.items[i].type = "scale" => ResponseAt(i).kind = "null"
          /\ questions.items[i].type = "text" => ~Truthy(ResponseAt(i))

\* C8 as stated: an empty submission yields score 50, urgency low and the
\* low-tier recommendations.
C8_EmptyIsLow ==
    (Called /\ EmptySubmission) =>
        /\ analysis.score = 50 * Tenths
        /\ analysis.urgency = "low"
        /\ RecKinds = << "maintenance", "preventive", "growth" >>

\* C8 amended: an empty submission yields score 50, urgency medium and
\* the medium-tier recommendations.
C8_EmptyIsMedium ==
    (Called /\ EmptySubmission) =>
        /\ analysis.score = 50 * Tenths
        /\ analysis.urgency = "medium"
        /\ RecKinds = << "immediate", "preventive", "module" >>

C8_Witness ==
    /\ Called /\ EmptySubmission
    /\ Len(questions.items) = 2
    /\ analysis.urgency = "medium"
    /\ RecKinds = << "immediate", "preventive", "module" >>

\* ------------------------------------------------------------------------ C9
\* C9: the streak reported for a user without a check-in dated today is 0,
\* for an empty history as for one with yesterday and earlier days present.
C9_NoCheckInTodayStreakZero ==
    (reply.kind = "progress" /\ today \notin CheckInDates(reply.user_id))
        => reply.streak = 0

C9_Witness ==
    /\ reply.kind = "progress"
    /\ today \notin CheckInDates(reply.user_id)
    /\ { today - 1, today - 2 } \subseteq CheckInDates(reply.user_id)
    /\ reply.streak = 0

\* ----------------------------------------------------------------------- C10
TrendLabels ==
    { "Significant improvement in wellness", "Gradual improvement in wellness",
      "Wellness requires attention", "Stable wellness levels" }

\* C10: a history of fewer than 2 entries gets the insufficient-data label;
\* a history of 2 or more gets one of the four trend labels, never a
\* division by zero.
C10_TrendTotal ==
    trend # NoTrend =>
        IF Len(history) < 2
        THEN trend = "Not enough data for trend analysis"
        ELSE trend \in TrendLabels

C10_Witness ==
    /\ Len(history) = 2
    /\ trend \in TrendLabels

\* ----------------------------------------------------------------------- C11
MinOf(a, b) == IF a <= b THEN a ELSE b
MaxOf(a, b) == IF a >= b THEN a ELSE b

\* the answer list cut to the length of the question list
TruncatedResponses ==
    JList(SubSeq(responses.items, 1,
                 MinOf(Len(responses.items), Len(questions.items))))

\* the answer list with None written for every missing trailing answer
PaddedResponses ==
    JList([i \in 1..MaxOf(Len(responses.items), Len(questions.items)) |->
              ResponseAt(i)])

\* the question list cut to the length of the answer list
TruncatedQuestions ==
    JList(SubSeq(questions.items, 1,
                 MinOf(Len(responses.items), Len(questions.items))))

\* the questions beyond the answer list are question records (have a type)
TrailingTyped ==
    \A i \in (Len(responses.items) + 1)..Len(questions.items) :
        "type" \in DOMAIN questions.items[i]

\* C11: answers are paired with questions by position.  Answers beyond
\* the question list never affect the result; a missing trailing answer is
\* the answer None; and the questions beyond the answer list add nothing
\* and cause no fallback: the result is that of the answered prefix.
C11_PositionalPairing ==
    (Called /\ questions.kind = "list" /\ responses.kind = "list") =>
        /\ analysis = analyze_responses(questions, TruncatedResponses)
        /\ analysis = analyze_responses(questions, PaddedResponses)
        /\ TrailingTyped =>
              analysis = analyze_responses(TruncatedQuestions, responses)

\* one answered stress question followed by a scale question without answer
C11_Witness ==
    /\ Called
    /\ questions = JList(<< QStress, QEnergy >>)
    /\ responses = JList(<< JNum(10 * Milli) >>)
    /\ analysis # FallbackAnalysis
    /\ analysis.score = 100 * Tenths

\* ----------------------------------------------------------------------- C13
\* the number of lexicon phrases found in the answer to text question i
Hits(i) ==
    IF /\ "type" \in DOMAIN questions.items[i]
       /\ questions.items[i].type = "text"
       /\ ResponseAt(i).kind = "str"
    THEN Cardinality({ k \in 1..Len(stress_keywords) :
            Contains(Lower(ResponseAt(i).items), KeywordChars(stress_keywords[k])) })
    ELSE 0

\* answer * 10 for stress, (11 - answer) * 10 for every other category
Contribution(i) ==
    IF questions.items[i].category = "stress"
    THEN ToFloat(ResponseAt(i)).milli * 10
    ELSE (11 * Milli - ToFloat(ResponseAt(i)).milli) * 10

RECURSIVE ExpectedTotal(_)
\* total over the first n questions
ExpectedTotal(n) ==
    IF n = 0 THEN 0
    ELSE ExpectedTotal(n - 1)
           + (IF ScaleAnswered(n) THEN Contribution(n) ELSE 15 * Milli * Hits(n))

ExpectedCount ==
    Cardinality({ i \in 1..Len(questions.items) : ScaleAnswered(i) })

\* min(100, total / scale_count) rounded to one decimal, in tenths
ExpectedScore ==
    LET total == ExpectedTotal(Len(questions.items))
    IN  IF total >= 100 * Milli * ExpectedCount
        THEN 100 * Tenths
        ELSE RoundHalfEven(total * Tenths, ExpectedCount * Milli)

\* C13: with an answered scale question and no anomaly the score is
\* min(100, total / scale_count) rounded to one decimal, where a stress
\* answer adds answer * 10, any other category (11 - answer) * 10 and a
\* lexicon hit 15; stress 9, energy 2 and two hits give total 210,
\* scale_count 2, score 100.0 and urgency high.
C13_ScoreFormula ==
    (Called /\ ~Anomalous /\ ExpectedCount > 0) =>
        /\ analysis.score = ExpectedScore
        /\ (questions = ExampleSubmission.questions
              /\ responses = ExampleSubmission.responses) =>
               /\ ExpectedTotal(3) = 210 * Milli
               /\ ExpectedCount = 2
               /\ analysis.score = 100 * Tenths
               /\ analysis.urgency = "high"

C13_Witness ==
    /\ Called
    /\ questions = ExampleSubmission.questions
    /\ responses = ExampleSubmission.responses
    /\ analysis.score = 100 * Tenths
    /\ analysis.urgency = "high"

\* ----------------------------------------------------------------------- C14
\* the lexicon phrases found in a text, in lexicon order, as concerns
PhraseConcerns(text) ==
    LET found == SelectSeq(stress_keywords,
                     LAMBDA kw : Contains(Lower(text), KeywordChars(kw)))
    IN  [k \in 1..Len(found) |->
            [text |-> "Mentioned feeling", keyword |-> found[k]]]

RECURSIVE ExpectedTextConcerns(_)
\* the concerns of the text answers to the first n questions, in order
ExpectedTextConcerns(n) ==
    IF n = 0 THEN <<>>
    ELSE ExpectedTextConcerns(n - 1)
           \o (IF Hits(n) > 0 THEN PhraseConcerns(ResponseAt(n).items) ELSE <<>>)

\* the number of base concerns of the result's tier
BaseCount ==
    CASE analysis.urgency = "high"   -> 2
      [] analysis.urgency = "medium" -> 1
      [] OTHER                       -> 0

\* C14: every distinct lexicon phrase contained in a text answer adds one
\* concern "Mentioned feeling <phrase>" and 15 to total, once per answer
\* and again for another answer; the text concerns follow the tier's base
\* concerns in question order, then lexicon order.
C14_TextConcerns ==
    (Called /\ ~Anomalous) =>
        LET expected == ExpectedTextConcerns(Len(questions.items))
        IN  /\ Len(analysis.concerns) = BaseCount + Len(expected)
            /\ \A k \in 1..BaseCount : analysis.concerns[k].keyword = ""
            /\ SubSeq(analysis.concerns, BaseCount + 1, Len(analysis.concerns))
                 = expected
            /\ ExpectedCount > 0 => analysis.score = ExpectedScore

\* "tired" twice in the first answer and once more in the second
C14_Witness ==
    /\ Called
    /\ questions = JList(<< QText, QText >>)
    /\ responses = JList(<< JStr(TextTiredTwice), JStr(TextTired) >>)
    /\ Len(analysis.concerns) = 3
    /\ analysis.concerns[2] = [text |-> "Mentioned feeling", keyword |-> "tired"]
    /\ analysis.concerns[3] = [text |-> "Mentioned feeling", keyword |-> "tired"]

\* ----------------------------------------------------------------------- C15
\* the catalog of the tiers: base concerns, recommendation kinds, summary
TierBaseCount(u) ==
    CASE u = "high" -> 2 [] u = "medium" -> 1 [] u = "low" -> 0

TierKinds(u) ==
    CASE u = "high"   -> << "immediate", "urgent", "support" >>
      [] u = "medium" -> << "immediate", "preventive", "module" >>
      [] u = "low"    -> << "maintenance", "preventive", "growth" >>

TierSummary(u) ==
    CASE u = "high" ->
           "Your responses indicate high stress levels. It's important to take immediate action to prevent burnout. Consider reaching out for support."
      [] u = "medium" ->
           "Your wellbeing shows some areas of concern. Taking proactive steps now can help prevent more serious issues."
      [] u = "low" ->
           "You're managing well overall! Keep up the good habits and continue monitoring your wellbeing."

BaseConcerns ==
    { k \in 1..Len(analysis.concerns) : analysis.concerns[k].keyword = "" }

\* C15: in every non-fallback result the base concerns, the
\* recommendations and the summary belong to the tier of the urgency, and
\* there are exactly 3 recommendations.
C15_TierConsistent ==
    (Called /\ analysis # FallbackAnalysis) =>
        /\ analysis.urgency \in { "high", "medium", "low" }
        /\ Cardinality(BaseConcerns) = TierBaseCount(analysis.urgency)
        /\ RecKinds = TierKinds(analysis.urgency)
        /\ analysis.summary = TierSummary(analysis.urgency)
        /\ Len(analysis.recommendations) = 3

\* a result whose rounded score is 70.0 while its tier is medium throughout
C15_Witness ==
    /\ Called /\ analysis # FallbackAnalysis
    /\ analysis.score = 70 * Tenths
    /\ analysis.urgency = "medium"
    /\ RecKinds = TierKinds("medium")
    /\ analysis.summary = TierSummary("medium")

\* ----------------------------------------------------------------------- C16
\* C16: a streak of k > 0 means that each of the k days today, today-1,
\* ..., today-(k-1) has a check-in; a check-in before the first missing
\* day never counts.  (The statement of the claim; the loop's second test
\* lets a date beyond a gap count.)
C16_StreakIsUnbrokenRun ==
    (reply.kind = "progress" /\ reply.streak > 0) =>
        \A j \in 0..(reply.streak - 1) :
            (today - j) \in CheckInDates(reply.user_id)

\* ----------------------------------------------------------------------- C17
HistoryScores == [k \in 1..Len(history) |-> history[k].burnout_score]

\* 5 in the units of SecondMinusFirst
FiveScaled ==
    5 * Tenths * (Len(history) \div 2) * (Len(history) - Len(history) \div 2)

\* C17: for n >= 2 scores the means of the indices [0, n//2) and [n//2, n)
\* are compared; with delta = second - first the label is significant
\* improvement for delta < -5, gradual improvement for -5 < delta < 0,
\* stable for 0 <= delta < 5 and needs attention for delta > 5;
\* [80,80,80,80] is stable, [90,90,40,40] a significant improvement and
\* [40,90] needs attention.
C17_TrendByHalves ==
    (trend # NoTrend /\ Len(history) >= 2) =>
        /\ SecondMinusFirst < 0 - FiveScaled
              => trend = "Significant improvement in wellness"
        /\ (SecondMinusFirst > 0 - FiveScaled /\ SecondMinusFirst < 0)
              => trend = "Gradual improvement in wellness"
        /\ (SecondMinusFirst >= 0 /\ SecondMinusFirst < FiveScaled)
              => trend = "Stable wellness levels"
        /\ SecondMinusFirst > FiveScaled
              => trend = "Wellness requires attention"
        /\ HistoryScores = << Score(800), Score(800), Score(800), Score(800) >>
              => trend = "Stable wellness levels"
        /\ HistoryScores = << Score(900), Score(900), Score(400), Score(400) >>
              => trend = "Significant improvement in wellness"
        /\ HistoryScores = << Score(400), Score(900) >>
              => trend = "Wellness requires attention"

\* an odd history whose middle element decides the label
C17_Witness ==
    /\ HistoryScores = << Score(400), Score(900), Score(400) >>
    /\ trend = "Wellness requires attention"

\* ----------------------------------------------------------------------- C18
\* the answer list with answer i replaced by a
Replaced(i, a) == JList([responses.items EXCEPT ![i] = a])

\* a parses to a scale value in [1, 10]
ValidScale(a) ==
    /\ a.kind # "null"
    /\ ToFloat(a).ok
    /\ ToFloat(a).milli >= 1 * Milli
    /\ ToFloat(a).milli <= 10 * Milli

\* the lexicon phrases contained in a text answer
HitSet(a) ==
    IF a.kind = "str"
    THEN { k \in 1..Len(stress_keywords) :
             Contains(Lower(a.items), KeywordChars(stress_keywords[k])) }
    ELSE {}

\* a is a higher valid rating than the one given to scale question i
RaisesScale(i, a) ==
    /\ "type" \in DOMAIN questions.items[i]
    /\ "category" \in DOMAIN questions.items[i]
    /\ questions.items[i].type = "scale"
    /\ ValidScale(ResponseAt(i)) /\ ValidScale(a)
    /\ ToFloat(a).milli > ToFloat(ResponseAt(i)).milli

\* a is the text answer to question i with at least one more phrase
AddsPhrase(i, a) ==
    /\ "type" \in DOMAIN questions.items[i]
    /\ questions.items[i].type = "text"
    /\ ResponseAt(i).kind = "str" /\ a.kind = "str"
    /\ HitSet(ResponseAt(i)) \subseteq HitSet(a)
    /\ HitSet(ResponseAt(i)) # HitSet(a)

\* the positions that have both a question and an answer
PairedPositions ==
    1..MinOf(Len(questions.items), Len(responses.items))

\* C18: between two valid submissions that differ in one position,
\* raising a stress rating never lowers the score, raising a rating of
\* any other category never raises it, and adding a lexicon phrase to a
\* text answer never lowers it.
C18_ScoreMonotone ==
    (Called /\ ValidSubmission) =>
        \A i \in PairedPositions, a \in AnswerSet :
            LET other == analyze_responses(questions, Replaced(i, a)).score
            IN  /\ (RaisesScale(i, a) /\ questions.items[i].category = "stress")
                      => other >= analysis.score
                /\ (RaisesScale(i, a) /\ questions.items[i].category # "stress")
                      => other <= analysis.score
                /\ AddsPhrase(i, a) => other >= analysis.score

\* a stress rating whose raise strictly raises the score, next to a
\* rating of another category
C18_Witness ==
    /\ Called /\ ValidSubmission
    /\ questions = JList(<< QStress, QEnergy >>)
    /\ \E a \in AnswerSet :
          /\ RaisesScale(1, a)
          /\ analyze_responses(questions, Replaced(1, a)).score > analysis.score
    /\ \E a \in AnswerSet :
          /\ RaisesScale(2, a)
          /\ analyze_responses(questions, Replaced(2, a)).score < analysis.score

\* ----------------------------------------------------------------------- C19
\* a table with exactly one row of user u for each date of D
OneRowPerDate(u, D) ==
    LET dates == SortDesc(D)
    IN  [k \in 1..Len(dates) |-> DailyResponse(u, dates[k], NullScore)]

\* C19: after any check-ins and day rollovers the streak is the one of
\* the set of distinct check-in dates (further check-ins on a day that has
\* one change nothing), it never exceeds the number of those dates, and
\* it is at least 1 once the user has checked in today.
C19_StreakOfDistinctDates ==
    reply.kind = "progress" =>
        LET u == reply.user_id
            D == CheckInDates(u)
        IN  /\ reply.streak
                 = calculate_check_in_streak(OneRowPerDate(u, D), u, today)
            /\ reply.streak <= Cardinality(D)
            /\ today \in D => reply.streak >= 1

\* two check-ins today and one yesterday
C19_Witness ==
    /\ reply.kind = "progress"
    /\ Cardinality({ k \in 1..Len(daily_responses) :
          /\ daily_responses[k].user_id = reply.user_id
          /\ daily_responses[k].created_at = today }) >= 2
    /\ CheckInDates(reply.user_id) = { today, today - 1 }
    /\ reply.streak = 2

====
